---- MODULE Spec2Model ----
(***************************************************************************)
(* A model of the KYC record-keeping API of src/app.py: the three tables   *)
(* (User, Document, Face), the S3-compatible object store behind           *)
(* upload_to_supabase, and the eleven request handlers.                    *)
(*                                                                         *)
(* The single-row handlers run as one step (one database transaction that  *)
(* ends in db.session.commit()).  The two upload handlers are split at the *)
(* places another request can interleave: the existence check and field    *)
(* validation, the network write to the object store, and the insert.      *)
(*                                                                         *)
(* Database: the handlers rely on what the declared schema gives.          *)
(*  - User.aadhaar is unique=True: the commit of a second row holding the  *)
(*    same non-null aadhaar raises IntegrityError.                         *)
(*  - User.name and User.phone are nullable=False.                         *)
(*  - Document.user_id and Face.user_id name ForeignKey('users.id'), but   *)
(*    the User model declares no __tablename__, so its rows live in table  *)
(*    "user": no constraint ties a Document or Face row to a User row, and *)
(*    no relationship() makes the ORM touch dependants on delete.          *)
(*  - ids come from a sequence (serial primary key): never reused, and a   *)
(*    value drawn by an INSERT that fails is not given back.               *)
(* No handler has a try/except: an exception leaves the handler and the    *)
(* framework answers with its own 500 page (kind "html").                  *)
(***************************************************************************)
EXTENDS Integers, Sequences, FiniteSets, TLC

\* ---------------------------------------------------------------- bounds
MaxUsers == 2
MaxUploads == 2
MaxClock == 2
MaxInFlight == 1

\* ---------------------------------------------------------------- values
None == "None"

Names == {"n1"}
Phones == {"p1", "p2"}
Aadhaars == {"a1"}
DocTypes == {"pan"}
Filenames == {"../a.png"}

UserIds == 1..MaxUsers
PathIds == UserIds
Slots == 1..MaxInFlight
NoTime == 0

VARIABLES users, documents, faces, bucket,
          userSeq, docSeq, faceSeq, now,
          inflight, resp,
          issued, deletedUsers

vars == <<users, documents, faces, bucket, userSeq, docSeq, faceSeq, now,
          inflight, resp, issued, deletedUsers>>

\* ------------------------------------------------------------- responses
\* jsonify(...), code: what a handler returns
Json(code, error) == [status |-> code, kind |-> "json", error |-> error]

\* an exception that leaves the handler: the framework's own 500 page
Unhandled(exc) == [status |-> 500, kind |-> "html", error |-> exc]

Reply(handler, r) ==
    [handler |-> handler, status |-> r.status, kind |-> r.kind, error |-> r.error]

NoResponse == [handler |-> "none", status |-> 0, kind |-> "none", error |-> "none"]

\* ------------------------------------------------------------ the tables
Put(table, id, row) ==
    [i \in (DOMAIN table) \cup {id} |-> IF i = id THEN row ELSE table[i]]

Remove(table, id) == [i \in (DOMAIN table) \ {id} |-> table[i]]

\* User.query.get(id), Document.query.get(id), Face.query.get(id)
Found(table, id) == id \in DOMAIN table

\* nullable=False on name and phone
NotNullViolation(row) == row.name = None \/ row.phone = None

\* the column declared without unique=True
UniqueViolation_undeclared(id, row) == FALSE

\* unique=True on aadhaar: NULLs never conflict
UniqueViolation(id, row) ==
    /\ row.aadhaar # None
    /\ \E u \in (DOMAIN users) \ {id} : users[u].aadhaar = row.aadhaar

IntegrityError(id, row) == NotNullViolation(row) \/ UniqueViolation(id, row)

\* the constraint the database names in the error: NOT NULL is checked first
Violated(id, row) ==
    IF NotNullViolation(row) THEN "NotNullViolation" ELSE "UniqueViolation"

\* ---------------------------------------------------------- request data
\* request.json: any subset of the three keys; JSON null is None
FieldValues(k) ==
    CASE k = "name" -> Names \cup {None}
      [] k = "phone" -> Phones
      [] k = "aadhaar" -> Aadhaars \cup {None}

Bodies ==
    UNION { {d \in [S -> Names \cup Phones \cup Aadhaars \cup {None}] :
                \A k \in S : d[k] \in FieldValues(k)} :
            S \in SUBSET {"name", "phone", "aadhaar"} }

Has(data, k) == k \in DOMAIN data

\* data.get('aadhaar')
Get(data, k) == IF Has(data, k) THEN data[k] ELSE None

\* ------------------------------------------------------- object storage
\* S3_ENDPOINT and S3_BUCKET, as path segments
S3_ENDPOINT == <<"https://project.supabase.co", "storage", "v1", "s3">>
S3_BUCKET == "kyc"

\* werkzeug's secure_filename: path separators and leading dots are dropped
secure_filename(filename) ==
    CASE filename = "../a.png" -> "a.png"
      [] OTHER -> filename

\* key = f"{path}/{filename}"
ObjectKey(filename, path) == Append(path, secure_filename(filename))

\* f"{S3_ENDPOINT.replace('/s3','')}/object/public/{S3_BUCKET}/{key}"
PublicUrl(key) ==
    SelectSeq(S3_ENDPOINT, LAMBDA seg : seg # "s3")
        \o <<"object", "public", S3_BUCKET>> \o key

\* request.files / request.form: any subset of the keys
Forms ==
    UNION { {f \in [S -> Filenames \cup DocTypes] :
                /\ ("file" \in S => f["file"] \in Filenames)
                /\ ("doc_type" \in S => f["doc_type"] \in DocTypes)} :
            S \in SUBSET {"file", "doc_type"} }

Idle == [pc |-> "idle"]

\* a request between its steps: what the handler's locals hold
Running(handler, pc, id, doc_type, filename, url) ==
    [pc |-> pc, handler |-> handler, id |-> id, doc_type |-> doc_type,
     filename |-> filename, url |-> url]

\* a request is taken by the first free worker
Free(s) ==
    /\ inflight[s].pc = "idle"
    /\ \A t \in Slots : t < s => inflight[t].pc # "idle"

\* rows inserted so far, and requests on their way to insert one
Uploads ==
    (docSeq - 1) + (faceSeq - 1) + Cardinality({s \in Slots : inflight[s].pc # "idle"})

\* ------------------------------------------------------------------ Init
Init ==
    /\ users = <<>>
    /\ documents = <<>>
    /\ faces = <<>>
    /\ bucket = {}
    /\ userSeq = 1
    /\ docSeq = 1
    /\ faceSeq = 1
    /\ now = 1
    /\ inflight = [s \in Slots |-> Idle]
    /\ resp = NoResponse
    /\ issued = {}
    /\ deletedUsers = {}

\* datetime.utcnow advances between requests
Tick ==
    /\ now < MaxClock
    /\ now' = now + 1
    /\ UNCHANGED <<users, documents, faces, bucket, userSeq, docSeq, faceSeq,
                   inflight, resp, issued, deletedUsers>>

\* GET /
home ==
    /\ resp' = Reply("home", Json(200, "none"))
    /\ UNCHANGED <<users, documents, faces, bucket, userSeq, docSeq, faceSeq, now,
                   inflight, issued, deletedUsers>>

\* ----------------------------------------------------------------- USERS
NewUser(data) ==
    [name |-> data["name"], phone |-> data["phone"], aadhaar |-> Get(data, "aadhaar"),
     email |-> None, address |-> None, created_at |-> now, updated_at |-> NoTime]

\* what create_user does with a body: the response, and the table and the id
\* sequence after it
create_user_result(data) ==
    IF ~Has(data, "name") \/ ~Has(data, "phone")
    THEN \* data['name'] / data['phone'] raises KeyError
         [resp |-> Unhandled("KeyError"), users |-> users, userSeq |-> userSeq]
    ELSE IF IntegrityError(userSeq, NewUser(data))
    THEN \* the INSERT drew an id; the commit failed
         [resp |-> Unhandled(Violated(userSeq, NewUser(data))),
          users |-> users, userSeq |-> userSeq + 1]
    ELSE [resp |-> Json(201, "none"),
          users |-> Put(users, userSeq, NewUser(data)), userSeq |-> userSeq + 1]

\* POST /users
create_user(data) ==
    /\ userSeq <= MaxUsers
    /\ resp' = Reply("create_user", create_user_result(data).resp)
    /\ users' = create_user_result(data).users
    /\ userSeq' = create_user_result(data).userSeq
    /\ UNCHANGED <<documents, faces, bucket, docSeq, faceSeq, now, inflight,
                   issued, deletedUsers>>

\* GET /users/<id>
get_user(id) ==
    /\ IF ~Found(users, id)
       THEN resp' = Reply("get_user", Json(404, "User not found"))
       ELSE resp' = Reply("get_user", Json(200, "none"))
    /\ UNCHANGED <<users, documents, faces, bucket, userSeq, docSeq, faceSeq, now,
                   inflight, issued, deletedUsers>>

\* PUT as a full replace: an absent aadhaar is written as null
Patched_replace(row, data) ==
    [row EXCEPT !.phone = IF Has(data, "phone") THEN data["phone"] ELSE @,
                !.name = IF Has(data, "name") THEN data["name"] ELSE @,
                !.aadhaar = Get(data, "aadhaar")]

\* the three conditional assignments of update_user
Patched(row, data) ==
    [row EXCEPT !.phone = IF Has(data, "phone") THEN data["phone"] ELSE @,
                !.name = IF Has(data, "name") THEN data["name"] ELSE @,
                !.aadhaar = IF Has(data, "aadhaar") THEN data["aadhaar"] ELSE @]

\* The flush at commit: the ORM emits an UPDATE only when an attribute has a
\* net change, and onupdate=datetime.utcnow fires only with that UPDATE.
Flushed(row, data) ==
    LET new == Patched(row, data)
    IN  IF new = row THEN row ELSE [new EXCEPT !.updated_at = now]

\* what update_user does with an id and a body: the response and the table
\* after it
update_user_result(id, data) ==
    IF ~Found(users, id)
    THEN [resp |-> Json(404, "User not found"), users |-> users]
    ELSE LET row == Flushed(users[id], data)
         IN  IF row # users[id] /\ IntegrityError(id, row)
             THEN [resp |-> Unhandled(Violated(id, row)), users |-> users]
             ELSE [resp |-> Json(200, "none"), users |-> [users EXCEPT ![id] = row]]

\* PUT /users/<id>
update_user(id, data) ==
    /\ resp' = Reply("update_user", update_user_result(id, data).resp)
    /\ users' = update_user_result(id, data).users
    /\ UNCHANGED <<documents, faces, bucket, userSeq, docSeq, faceSeq, now,
                   inflight, issued, deletedUsers>>

\* the relationship declared with cascade="all, delete-orphan"
delete_user_result_cascade(id) ==
    IF ~Found(users, id)
    THEN [resp |-> Json(404, "User not found"), users |-> users,
          documents |-> documents, faces |-> faces]
    ELSE [resp |-> Json(200, "none"), users |-> Remove(users, id),
          documents |-> [d \in {x \in DOMAIN documents : documents[x].user_id # id}
                            |-> documents[d]],
          faces |-> [f \in {x \in DOMAIN faces : faces[x].user_id # id} |-> faces[f]]]

\* what delete_user does with an id: the response and the three tables after
\* it (db.session.delete(user) touches the User row alone)
delete_user_result(id) ==
    IF ~Found(users, id)
    THEN [resp |-> Json(404, "User not found"), users |-> users,
          documents |-> documents, faces |-> faces]
    ELSE [resp |-> Json(200, "none"), users |-> Remove(users, id),
          documents |-> documents, faces |-> faces]

\* DELETE /users/<id>
delete_user(id) ==
    /\ resp' = Reply("delete_user", delete_user_result(id).resp)
    /\ users' = delete_user_result(id).users
    /\ documents' = delete_user_result(id).documents
    /\ faces' = delete_user_result(id).faces
    /\ deletedUsers' = deletedUsers \cup ((DOMAIN users) \ (DOMAIN users'))
    /\ UNCHANGED <<bucket, userSeq, docSeq, faceSeq, now, inflight, issued>>

\* upload_to_supabase with the exception swallowed: the URL is returned whether
\* or not the object was written
upload_to_supabase_swallow(s, path) ==
    LET key == ObjectKey(inflight[s].filename, path)
    IN  /\ bucket' \in {bucket \cup {key}, bucket}
        /\ inflight' = [inflight EXCEPT ![s].pc = "insert", ![s].url = PublicUrl(key)]
        /\ UNCHANGED resp

\* ---------------------------------------------------------------- Helper
\* upload_to_supabase, called by the request in slot s: the write to the
\* object store either completes, and the public URL is returned, or raises,
\* and the exception leaves the handler.
upload_to_supabase(s, path) ==
    LET key == ObjectKey(inflight[s].filename, path)
    IN  \/ /\ bucket' = bucket \cup {key}
           /\ inflight' = [inflight EXCEPT ![s].pc = "insert", ![s].url = PublicUrl(key)]
           /\ UNCHANGED resp
        \/ /\ resp' = Reply(inflight[s].handler, Unhandled("S3UploadFailedError"))
           /\ inflight' = [inflight EXCEPT ![s] = Idle]
           /\ UNCHANGED bucket

\* ------------------------------------------------------------- DOCUMENTS
\* upload_document without the User lookup
upload_document_check_result_nolookup(id, form) ==
    IF ~Has(form, "file") \/ ~Has(form, "doc_type")
    THEN [go |-> FALSE, resp |-> Json(400, "File and doc_type required")]
    ELSE [go |-> TRUE, resp |-> Json(0, "none")]

\* lines 146-150 of upload_document: the response that ends the request, or
\* go, when the handler proceeds to the upload
upload_document_check_result(id, form) ==
    IF ~Found(users, id)
    THEN [go |-> FALSE, resp |-> Json(404, "User not found")]
    ELSE IF ~Has(form, "file") \/ ~Has(form, "doc_type")
    THEN [go |-> FALSE, resp |-> Json(400, "File and doc_type required")]
    ELSE [go |-> TRUE, resp |-> Json(0, "none")]

\* POST /users/<id>/documents: lines 146-152
upload_document_check(s, id, form) ==
    /\ Free(s)
    /\ Uploads < MaxUploads
    /\ IF upload_document_check_result(id, form).go
       THEN /\ inflight' = [inflight EXCEPT ![s] =
                                Running("upload_document", "upload", id,
                                        form["doc_type"], form["file"], None)]
            /\ UNCHANGED resp
       ELSE /\ resp' = Reply("upload_document",
                             upload_document_check_result(id, form).resp)
            /\ UNCHANGED inflight
    /\ UNCHANGED <<users, documents, faces, bucket, userSeq, docSeq, faceSeq, now,
                   issued, deletedUsers>>

\* line 153
upload_document_store(s) ==
    /\ inflight[s].pc = "upload"
    /\ inflight[s].handler = "upload_document"
    /\ upload_to_supabase(s, <<"documents", ToString(inflight[s].id),
                               inflight[s].doc_type>>)
    /\ UNCHANGED <<users, documents, faces, userSeq, docSeq, faceSeq, now,
                   issued, deletedUsers>>

NewDocument(s) ==
    [user_id |-> inflight[s].id, doc_type |-> inflight[s].doc_type,
     doc_url |-> inflight[s].url, status |-> "pending", uploaded_at |-> now]

\* lines 154-157
upload_document_insert(s) ==
    /\ inflight[s].pc = "insert"
    /\ inflight[s].handler = "upload_document"
    /\ documents' = Put(documents, docSeq, NewDocument(s))
    /\ docSeq' = docSeq + 1
    /\ resp' = Reply("upload_document", Json(201, "none"))
    /\ issued' = issued \cup {[doc_id |-> docSeq, doc_url |-> inflight[s].url,
                                user_id |-> inflight[s].id]}
    /\ inflight' = [inflight EXCEPT ![s] = Idle]
    /\ UNCHANGED <<users, faces, bucket, userSeq, faceSeq, now, deletedUsers>>

\* Document.query.all(): the filter on user_id left out
list_documents_body_unfiltered(id) ==
    {[id |-> d, doc_type |-> documents[d].doc_type, doc_url |-> documents[d].doc_url,
      status |-> documents[d].status, uploaded_at |-> documents[d].uploaded_at] :
        d \in DOMAIN documents}

\* the body of list_documents: the rows of Document.query.filter_by(user_id=id)
list_documents_body(id) ==
    {[id |-> d, doc_type |-> documents[d].doc_type, doc_url |-> documents[d].doc_url,
      status |-> documents[d].status, uploaded_at |-> documents[d].uploaded_at] :
        d \in {x \in DOMAIN documents : documents[x].user_id = id}}

\* what list_documents answers: no lookup of the User
list_documents_result(id) == [resp |-> Json(200, "none"), body |-> list_documents_body(id)]

\* GET /users/<id>/documents
list_documents(id) ==
    /\ resp' = Reply("list_documents", list_documents_result(id).resp)
    /\ UNCHANGED <<users, documents, faces, bucket, userSeq, docSeq, faceSeq, now,
                   inflight, issued, deletedUsers>>

\* DELETE /documents/<doc_id>
delete_document(doc_id) ==
    /\ IF ~Found(documents, doc_id)
       THEN /\ resp' = Reply("delete_document", Json(404, "Document not found"))
            /\ UNCHANGED <<documents, issued>>
       ELSE /\ documents' = Remove(documents, doc_id)
            /\ issued' = {r \in issued : r.doc_id # doc_id}
            /\ resp' = Reply("delete_document", Json(200, "none"))
    /\ UNCHANGED <<users, faces, bucket, userSeq, docSeq, faceSeq, now,
                   inflight, deletedUsers>>

\* ----------------------------------------------------------------- FACES
\* upload_face with the file validated before the User lookup
upload_face_check_result_filefirst(id, form) ==
    IF ~Has(form, "file")
    THEN [go |-> FALSE, resp |-> Json(400, "File required")]
    ELSE IF ~Found(users, id)
    THEN [go |-> FALSE, resp |-> Json(404, "User not found")]
    ELSE [go |-> TRUE, resp |-> Json(0, "none")]

\* lines 185-189 of upload_face: the response that ends the request, or go,
\* when the handler proceeds to the upload
upload_face_check_result(id, form) ==
    IF ~Found(users, id)
    THEN [go |-> FALSE, resp |-> Json(404, "User not found")]
    ELSE IF ~Has(form, "file")
    THEN [go |-> FALSE, resp |-> Json(400, "File required")]
    ELSE [go |-> TRUE, resp |-> Json(0, "none")]

\* POST /users/<id>/face: lines 185-190
upload_face_check(s, id, form) ==
    /\ Free(s)
    /\ Uploads < MaxUploads
    /\ IF upload_face_check_result(id, form).go
       THEN /\ inflight' = [inflight EXCEPT ![s] =
                                Running("upload_face", "upload", id, None,
                                        form["file"], None)]
            /\ UNCHANGED resp
       ELSE /\ resp' = Reply("upload_face", upload_face_check_result(id, form).resp)
            /\ UNCHANGED inflight
    /\ UNCHANGED <<users, documents, faces, bucket, userSeq, docSeq, faceSeq, now,
                   issued, deletedUsers>>

\* line 191
upload_face_store(s) ==
    /\ inflight[s].pc = "upload"
    /\ inflight[s].handler = "upload_face"
    /\ upload_to_supabase(s, <<"faces", ToString(inflight[s].id)>>)
    /\ UNCHANGED <<users, documents, faces, userSeq, docSeq, faceSeq, now,
                   issued, deletedUsers>>

NewFace(s) ==
    [user_id |-> inflight[s].id, face_url |-> inflight[s].url,
     liveness_score |-> None, match_score |-> None, status |-> "pending",
     created_at |-> now]

\* lines 192-195
upload_face_insert(s) ==
    /\ inflight[s].pc = "insert"
    /\ inflight[s].handler = "upload_face"
    /\ faces' = Put(faces, faceSeq, NewFace(s))
    /\ faceSeq' = faceSeq + 1
    /\ resp' = Reply("upload_face", Json(201, "none"))
    /\ inflight' = [inflight EXCEPT ![s] = Idle]
    /\ UNCHANGED <<users, documents, bucket, userSeq, docSeq, now,
                   issued, deletedUsers>>

\* the body of get_faces: the rows of Face.query.filter_by(user_id=id)
get_faces_body(id) ==
    {[id |-> f, face_url |-> faces[f].face_url,
      liveness_score |-> faces[f].liveness_score,
      match_score |-> faces[f].match_score, status |-> faces[f].status,
      created_at |-> faces[f].created_at] :
        f \in {x \in DOMAIN faces : faces[x].user_id = id}}

\* what get_faces answers: no lookup of the User
get_faces_result(id) == [resp |-> Json(200, "none"), body |-> get_faces_body(id)]

\* GET /users/<id>/face
get_faces(id) ==
    /\ resp' = Reply("get_faces", get_faces_result(id).resp)
    /\ UNCHANGED <<users, documents, faces, bucket, userSeq, docSeq, faceSeq, now,
                   inflight, issued, deletedUsers>>

\* DELETE /faces/<face_id>
delete_face(face_id) ==
    /\ IF ~Found(faces, face_id)
       THEN /\ resp' = Reply("delete_face", Json(404, "Face not found"))
            /\ UNCHANGED faces
       ELSE /\ faces' = Remove(faces, face_id)
            /\ resp' = Reply("delete_face", Json(200, "none"))
    /\ UNCHANGED <<users, documents, bucket, userSeq, docSeq, faceSeq, now,
                   inflight, issued, deletedUsers>>

\* ------------------------------------------------------ the user resource
NextUsers ==
    \/ Tick
    \/ home
    \/ \E data \in Bodies : create_user(data)
    \/ \E id \in PathIds : get_user(id)
    \/ \E id \in PathIds, data \in Bodies : update_user(id, data)

SpecUsers == Init /\ [][NextUsers]_vars
\* ------------------------------------------------ documents and faces
\* the users of this specification are registered with one body
KycBodies == {[name |-> "n1", phone |-> "p1"]}

NextUploads ==
    \/ \E data \in KycBodies : create_user(data)
    \/ \E id \in PathIds : delete_user(id)
    \/ \E s \in Slots, id \in PathIds, form \in Forms : upload_document_check(s, id, form)
    \/ \E s \in Slots : upload_document_store(s)
    \/ \E s \in Slots : upload_document_insert(s)
    \/ \E id \in PathIds : list_documents(id)
    \/ \E doc_id \in 1..MaxUploads : delete_document(doc_id)
    \/ \E s \in Slots, id \in PathIds, form \in Forms : upload_face_check(s, id, form)
    \/ \E s \in Slots : upload_face_store(s)
    \/ \E s \in Slots : upload_face_insert(s)
    \/ \E id \in PathIds : get_faces(id)
    \/ \E face_id \in 1..MaxUploads : delete_face(face_id)

SpecUploads == Init /\ [][NextUploads]_vars

\* ------------------------------------------------------- the whole API
Next == NextUsers \/ NextUploads

Spec == Init /\ [][Next]_vars


\* ======================================================== the user resource

\* no two User rows hold the same non-null aadhaar
AadhaarUnique ==
    \A u, v \in DOMAIN users :
        (u # v /\ users[u].aadhaar = users[v].aadhaar) => users[u].aadhaar = None

\* aadhaar a is held by a user other than id
HeldByOther(id, a) == \E u \in (DOMAIN users) \ {id} : users[u].aadhaar = a

Complete(data) == Has(data, "name") /\ Has(data, "phone")

Failed(r) == r.status \notin {200, 201}

\* C3: in every reachable state no two User rows hold the same non-null
\* aadhaar; a POST /users or PUT /users/{id} that would give a user an aadhaar
\* already held by a different user fails and leaves the users and their
\* aadhaar values unchanged; a null aadhaar conflicts with nothing: a create
\* with name and phone and no (or a null) aadhaar succeeds whatever the other
\* users hold, and so does an update that sets the aadhaar to null.
C3_AadhaarUnique ==
    /\ AadhaarUnique
    /\ \A data \in Bodies :
          LET o == create_user_result(data)
          IN  /\ (/\ Complete(data)
                  /\ Get(data, "aadhaar") # None
                  /\ HeldByOther(userSeq, Get(data, "aadhaar")))
                     => (o.users = users /\ Failed(o.resp))
              /\ (/\ Complete(data)
                  /\ data["name"] # None
                  /\ Get(data, "aadhaar") = None)
                     => (/\ o.resp.status = 201
                         /\ DOMAIN o.users = (DOMAIN users) \cup {userSeq}
                         /\ o.users[userSeq].aadhaar = None
                         /\ \A u \in DOMAIN users : o.users[u] = users[u])
    /\ \A id \in DOMAIN users, data \in Bodies :
          LET o == update_user_result(id, data)
          IN  /\ (/\ Get(data, "aadhaar") # None
                  /\ HeldByOther(id, Get(data, "aadhaar")))
                     => (o.users = users /\ Failed(o.resp))
              /\ (/\ Has(data, "aadhaar")
                  /\ data["aadhaar"] = None
                  /\ Get(data, "name") = None => ~Has(data, "name"))
                     => (o.resp.status = 200 /\ o.users[id].aadhaar = None)

\* a second holder of an aadhaar was refused while the first still holds it
C3_Witness ==
    /\ resp.error = "UniqueViolation"
    /\ \E u, v \in DOMAIN users :
          u # v /\ users[u].aadhaar = "a1" /\ users[v].aadhaar = None

\* C4 (as claimed): a request missing a required field (name or phone on
\* POST /users; file or doc_type on POST /users/{id}/documents and file on
\* POST /users/{id}/face, for an existing user) gets a 400 JSON response, and
\* no row is written and no upload is started.
C4_MissingFieldIs400 ==
    /\ \A data \in Bodies :
          ~Complete(data) =>
              LET o == create_user_result(data)
              IN  o.resp.status = 400 /\ o.resp.kind = "json" /\ o.users = users
    /\ \A id \in DOMAIN users, form \in Forms :
          /\ ~(Has(form, "file") /\ Has(form, "doc_type")) =>
                LET o == upload_document_check_result(id, form)
                IN  ~o.go /\ o.resp.status = 400 /\ o.resp.kind = "json"
          /\ ~Has(form, "file") =>
                LET o == upload_face_check_result(id, form)
                IN  ~o.go /\ o.resp.status = 400 /\ o.resp.kind = "json"

\* C5 (as claimed): a failed object-store upload or a constraint violation at
\* commit is answered by the handler itself with a structured JSON error, of
\* status 5xx, 409 or 400; no request ends in an unhandled fault.
C5_FailuresAreCaught ==
    resp.error \in {"S3UploadFailedError", "UniqueViolation", "NotNullViolation"}
        => (resp.kind = "json" /\ resp.status \in {400, 409} \cup (500..599))

\* the three fields a PUT body may carry
Patchable == {"name", "phone", "aadhaar"}

\* row b is row a with exactly the fields of data overwritten, but for updated_at
PatchOf(a, b, data) ==
    /\ \A k \in Patchable : b[k] = IF Has(data, k) THEN data[k] ELSE a[k]
    /\ b.email = a.email
    /\ b.address = a.address
    /\ b.created_at = a.created_at

OthersKept(id, after) ==
    /\ DOMAIN after = DOMAIN users
    /\ \A u \in (DOMAIN users) \ {id} : after[u] = users[u]

\* C8 (as claimed): a 200 PUT /users/{id} overwrites exactly the fields of
\* name, phone and aadhaar present in the body, keeps every other field and
\* every other row, and sets updated_at to a later timestamp, also when the
\* body is empty or repeats the current values.
C8_AlwaysRefreshed ==
    \A id \in DOMAIN users, data \in Bodies :
        LET o == update_user_result(id, data)
        IN  o.resp.status = 200 =>
               /\ PatchOf(users[id], o.users[id], data)
               /\ OthersKept(id, o.users)
               /\ o.users[id].updated_at > users[id].updated_at

\* C8 (amended): a 200 PUT /users/{id} overwrites exactly the fields of name,
\* phone and aadhaar present in the body, keeps every other field and every
\* other row; when at least one of the three fields changes value, updated_at
\* is set to the clock reading at the commit, which is never earlier than its
\* previous value or than created_at; when the body is empty or repeats the
\* current values, updated_at keeps its previous value.
C8_PartialPatch ==
    \A id \in DOMAIN users, data \in Bodies :
        LET o == update_user_result(id, data)
        IN  o.resp.status = 200 =>
               /\ PatchOf(users[id], o.users[id], data)
               /\ OthersKept(id, o.users)
               /\ IF \E k \in Patchable : o.users[id][k] # users[id][k]
                  THEN /\ o.users[id].updated_at = now
                       /\ o.users[id].updated_at >= users[id].updated_at
                       /\ o.users[id].updated_at >= users[id].created_at
                  ELSE o.users[id].updated_at = users[id].updated_at

\* a user was patched at a later clock reading than its creation, next to
\* another user, and the last request was a PUT answered 200
C8_Witness ==
    /\ resp.handler = "update_user"
    /\ resp.status = 200
    /\ \E u, v \in DOMAIN users :
          /\ u # v
          /\ users[u].updated_at > users[u].created_at
          /\ users[u].phone = "p2"
          /\ users[u].aadhaar = "a1"
\* ==================================================== documents and faces

\* the ids of the User rows that exist or have existed
EverUsers == (DOMAIN users) \cup deletedUsers

NotFound == [go |-> FALSE, resp |-> Json(404, "User not found")]

\* the URLs of the objects the bucket holds
StoredUrls == {PublicUrl(k) : k \in bucket}

\* C1: POST /users/{id}/documents and POST /users/{id}/face for an id with no
\* User row answer 404 "User not found", whatever the form holds, and go no
\* further; the existence check comes before the upload and the upload before
\* the insert: a request waiting to upload has passed the check for a user
\* that existed and holds no URL yet, a request waiting to insert has its
\* object in the bucket, and no object and no row was ever written under the
\* id of a user that never existed.
C1_CheckThenUploadThenInsert ==
    /\ \A id \in PathIds, form \in Forms :
          ~Found(users, id) =>
              /\ upload_document_check_result(id, form) = NotFound
              /\ upload_face_check_result(id, form) = NotFound
    /\ \A s \in Slots :
          /\ inflight[s].pc = "upload" =>
                (inflight[s].id \in EverUsers /\ inflight[s].url = None)
          /\ inflight[s].pc = "insert" =>
                (inflight[s].id \in EverUsers /\ inflight[s].url \in StoredUrls)
    /\ \A k \in bucket : \E u \in EverUsers : k[2] = ToString(u)
    /\ \A d \in DOMAIN documents : documents[d].user_id \in EverUsers
    /\ \A f \in DOMAIN faces : faces[f].user_id \in EverUsers

\* an upload for an id without a User row was answered 404 while another
\* user's upload had gone through
C1_Witness ==
    /\ resp.handler \in {"upload_document", "upload_face"}
    /\ resp.status = 404
    /\ bucket # {}

\* C2 (as claimed): at the moment a Document or Face row is inserted, its
\* user_id is the id of an existing User row, under every interleaving of
\* requests, a DELETE /users/{id} running beside the upload included.
C2_InsertReferencesUser ==
    [][/\ docSeq' # docSeq => Found(users', documents'[docSeq].user_id)
       /\ faceSeq' # faceSeq => Found(users', faces'[faceSeq].user_id)]_vars

\* C2 (amended): a request enters the upload only for an id whose User row
\* exists at its existence check, and the row it inserts carries that id; at
\* the moment of the insert the User row exists unless a DELETE /users/{id}
\* for it committed after the check, in which case the row is inserted with a
\* user_id that references no User row.
C2_InsertReferencesCheckedUser ==
    [][/\ \A s \in Slots :
             /\ (inflight[s].pc = "idle" /\ inflight'[s].pc # "idle") =>
                   (inflight'[s].pc = "upload" /\ Found(users, inflight'[s].id))
             /\ (inflight[s].pc # "idle" /\ inflight'[s].pc # "idle") =>
                   inflight'[s].id = inflight[s].id
       /\ docSeq' # docSeq =>
             /\ \E s \in Slots :
                   /\ inflight[s].pc = "insert"
                   /\ inflight'[s].pc = "idle"
                   /\ documents'[docSeq].user_id = inflight[s].id
             /\ \/ Found(users', documents'[docSeq].user_id)
                \/ documents'[docSeq].user_id \in deletedUsers
       /\ faceSeq' # faceSeq =>
             /\ \E s \in Slots :
                   /\ inflight[s].pc = "insert"
                   /\ inflight'[s].pc = "idle"
                   /\ faces'[faceSeq].user_id = inflight[s].id
             /\ \/ Found(users', faces'[faceSeq].user_id)
                \/ faces'[faceSeq].user_id \in deletedUsers
       /\ deletedUsers' \cap DOMAIN users' = {}]_vars

\* a document was just inserted, 201, for a user deleted since the check
C2_Witness ==
    /\ resp.handler = "upload_document"
    /\ resp.status = 201
    /\ Found(documents, docSeq - 1)
    /\ ~Found(users, documents[docSeq - 1].user_id)
    /\ documents[docSeq - 1].user_id \in deletedUsers

\* C6: a failed object-store upload ends the request without a 201 and
\* without a row; every Document and Face row, and every request about to
\* insert one, carries the public URL of an object the bucket holds, so every
\* 201 of an upload handler answers for a stored object.
C6_NoDanglingUrl ==
    /\ \A d \in DOMAIN documents : documents[d].doc_url \in StoredUrls
    /\ \A f \in DOMAIN faces : faces[f].face_url \in StoredUrls
    /\ \A s \in Slots : inflight[s].pc = "insert" => inflight[s].url \in StoredUrls
    /\ resp.error = "S3UploadFailedError" => resp.status # 201

\* an upload failed before any object was stored, and no row exists
C6_Witness ==
    /\ resp.error = "S3UploadFailedError"
    /\ bucket = {}
    /\ documents = <<>>
    /\ faces = <<>>
    /\ users # <<>>

\* what a listing shows of the documents: id and URL
Listed(id) == {[doc_id |-> e.id, doc_url |-> e.doc_url] : e \in list_documents_body(id)}

\* the documents uploaded for id with 201 and not deleted by DELETE /documents
IssuedFor(id) ==
    {[doc_id |-> r.doc_id, doc_url |-> r.doc_url] : r \in {x \in issued : x.user_id = id}}

\* C7: GET /users/{X}/documents answers 200 with exactly the Document rows
\* uploaded for X with a 201 and not since deleted by DELETE /documents/{id},
\* each with the doc_url its upload returned and status "pending".
C7_ListIsUploadsOfUser ==
    \A id \in PathIds :
        /\ list_documents_result(id).resp.status = 200
        /\ Listed(id) = IssuedFor(id)
        /\ Cardinality(list_documents_body(id)) = Cardinality(IssuedFor(id))
        /\ \A e \in list_documents_result(id).body : e.status = "pending"

\* two documents uploaded, one of them for the user listed; the other one for
\* someone else or deleted
C7_Witness ==
    /\ docSeq = 3
    /\ \E id \in PathIds : Cardinality(list_documents_body(id)) = 1
    /\ resp.handler = "list_documents"

\* C9: DELETE /users/{id} of an existing user answers 200 and removes that
\* User row alone: the other users, the Document rows and the Face rows stay
\* as they are, so the rows of the deleted user remain and the listing
\* endpoints still return them under its id.
C9_DeleteLeavesOrphans ==
    /\ \A id \in DOMAIN users :
          LET o == delete_user_result(id)
          IN  /\ o.resp = Json(200, "none")
              /\ DOMAIN o.users = (DOMAIN users) \ {id}
              /\ \A u \in DOMAIN o.users : o.users[u] = users[u]
              /\ o.documents = documents
              /\ o.faces = faces
    /\ \A r \in issued :
          /\ Found(documents, r.doc_id)
          /\ documents[r.doc_id].user_id = r.user_id
          /\ \E e \in list_documents_result(r.user_id).body : e.id = r.doc_id
    /\ \A f \in DOMAIN faces :
          \E e \in get_faces_result(faces[f].user_id).body : e.id = f

\* a user with a document and a face was just deleted, 200, and both rows
\* are still there
C9_Witness ==
    /\ resp.handler = "delete_user"
    /\ resp.status = 200
    /\ Cardinality(deletedUsers) = 1
    /\ \E d \in DOMAIN documents : documents[d].user_id \in deletedUsers
    /\ \E f \in DOMAIN faces : faces[f].user_id \in deletedUsers

\* C10 (as claimed): GET /users/{id}/documents and GET /users/{id}/face for
\* an id with no User row answer 404.
C10_ListingOfMissingUserIs404 ==
    \A id \in PathIds :
        ~Found(users, id) =>
            /\ list_documents_result(id).resp.status = 404
            /\ get_faces_result(id).resp.status = 404

====
